---- MODULE Spec2Model ----
(***************************************************************************)
(* Model of Console-Based-Editor.py: a line-oriented editor driven by      *)
(* short textual commands, with snapshot undo and repeat-last-command.     *)
(*                                                                         *)
(* Python strings are modelled as sequences of one-character strings, so   *)
(* the text "hi" is <<"h", "i">> and the empty text is << >>.  Python      *)
(* indices are 0-based: content[n] in the source is content[n + 1] here.   *)
(***************************************************************************)
EXTENDS Integers, Sequences, FiniteSets, TLC

(***************************************************************************)
(* Bounds of the model.                                                    *)
(***************************************************************************)
MaxUndo == 2            \* snapshots kept on the undo stack
MaxUndoLines == 4       \* snapshots kept when only line commands are typed
MaxLines == 3           \* lines of the document
MaxLineLen == 4         \* characters of one line
MaxParseLen == 2        \* characters of an input handed to the parser alone

(***************************************************************************)
(* Python values.                                                          *)
(***************************************************************************)
\* Python's None: a value no text, verb or line is equal to.
None == <<"None">>

Min(a, b) == IF a < b THEN a ELSE b

Max(a, b) == IF a > b THEN a ELSE b

\* seq[a:b] for 0 <= a, 0 <= b: Python clips both ends to len(seq).
Slice(seq, a, b) == SubSeq(seq, Min(a, Len(seq)) + 1, Min(b, Len(seq)))

\* seq[a:]
SliceFrom(seq, a) == Slice(seq, a, Len(seq))

\* list.insert(i, x) for i >= 0: an index past the end appends.
ListInsert(seq, i, x) == Slice(seq, 0, i) \o <<x>> \o SliceFrom(seq, i)

\* del seq[i]
ListDel(seq, i) == Slice(seq, 0, i) \o SliceFrom(seq, i + 1)

\* seq.pop() leaves seq[:-1]
ListPop(seq) == SubSeq(seq, 1, Len(seq) - 1)

\* ch.isspace(), over the characters of the model
isspace(ch) == ch = " "

(***************************************************************************)
(* The editor state: the dictionary built by initialize_state.             *)
(***************************************************************************)
initialize_state ==
    [content |-> << >>,
     current_line |-> 0,
     current_row |-> 0,
     show_line_cursor |-> FALSE,
     show_row_cursor |-> FALSE,
     clipboard |-> None,
     undo_stack |-> << >>,
     command_history |-> << >>]

\* The fields a snapshot holds.
Snapshot(s) ==
    [content |-> s.content,
     current_line |-> s.current_line,
     current_row |-> s.current_row,
     show_line_cursor |-> s.show_line_cursor,
     show_row_cursor |-> s.show_row_cursor,
     clipboard |-> s.clipboard]

save_state(s) == [s EXCEPT !.undo_stack = Append(@, Snapshot(s))]

\* restore_state with the clipboard left as it is.
restore_state_keep_clipboard(s, saved_state) ==
    [s EXCEPT !.content = saved_state.content,
              !.current_line = saved_state.current_line,
              !.current_row = saved_state.current_row,
              !.show_line_cursor = saved_state.show_line_cursor,
              !.show_row_cursor = saved_state.show_row_cursor]

restore_state(s, saved_state) ==
    [s EXCEPT !.content = saved_state.content,
              !.current_line = saved_state.current_line,
              !.current_row = saved_state.current_row,
              !.show_line_cursor = saved_state.show_line_cursor,
              !.show_row_cursor = saved_state.show_row_cursor,
              !.clipboard = saved_state.clipboard]

\* clamp_cursor with the column bounded by the line length, not length - 1.
clamp_cursor_off_by_one(s) ==
    LET line_count == Len(s.content)
        cl == IF line_count > 0
              THEN Max(0, Min(s.current_line, line_count - 1))
              ELSE 0
        line_length == IF s.content # << >> /\ cl < line_count
                       THEN Len(s.content[cl + 1])
                       ELSE 0
    IN  [s EXCEPT !.current_line = cl,
                  !.current_row = Max(0, Min(s.current_row, line_length))]

clamp_cursor(s) ==
    LET line_count == Len(s.content)
        cl == IF line_count > 0
              THEN Max(0, Min(s.current_line, line_count - 1))
              ELSE 0
        line_length == IF s.content # << >> /\ cl < line_count
                       THEN Len(s.content[cl + 1])
                       ELSE 0
    IN  [s EXCEPT !.current_line = cl,
                  !.current_row =
                      Max(0, Min(s.current_row,
                                 IF line_length > 0 THEN line_length - 1 ELSE 0))]


(***************************************************************************)
(* The command parser.                                                     *)
(***************************************************************************)
SingleCharVerbs ==
    {<<"?">>, <<".">>, <<";">>, <<"h">>, <<"j">>, <<"k">>, <<"l">>, <<"^">>,
     <<"$">>, <<"x">>, <<"s">>, <<"q">>, <<"w">>, <<"b">>}

FixedVerbs ==
    {<<"d", "w">>, <<"y", "y">>, <<"d", "d">>, <<"p">>, <<"P">>, <<"o">>, <<"O">>}

HistoryVerbs == {<<"u">>, <<"r">>}

\* c.startswith(p) for a one-character p
startswith(c, p) == Len(c) >= 1 /\ c[1] = p

\* parse_command with the length test of the insert rule dropped.
parse_command_bare_insert(c) ==
    IF c \in SingleCharVerbs THEN <<c, None>>
    ELSE IF c \in FixedVerbs THEN <<c, None>>
    ELSE IF startswith(c, "i") THEN <<(<<"i">>), SliceFrom(c, 1)>>
    ELSE IF startswith(c, "a")
         THEN IF Len(c) > 1 THEN <<(<<"a">>), SliceFrom(c, 1)>> ELSE <<None, None>>
    ELSE IF c \in HistoryVerbs THEN <<c, None>>
    ELSE <<None, None>>

\* The first pattern whose condition holds decides; no match is (None, None).
parse_command(c) ==
    IF c \in SingleCharVerbs THEN <<c, None>>
    ELSE IF c \in FixedVerbs THEN <<c, None>>
    ELSE IF startswith(c, "i")
         THEN IF Len(c) > 1 THEN <<(<<"i">>), SliceFrom(c, 1)>> ELSE <<None, None>>
    ELSE IF startswith(c, "a")
         THEN IF Len(c) > 1 THEN <<(<<"a">>), SliceFrom(c, 1)>> ELSE <<None, None>>
    ELSE IF c \in HistoryVerbs THEN <<c, None>>
    ELSE <<None, None>>

(***************************************************************************)
(* The word scanner.                                                       *)
(***************************************************************************)
RECURSIVE SkipWord(_, _)
\* while pos < len(line) and not line[pos].isspace(): pos += 1
SkipWord(line, pos) ==
    IF pos < Len(line) /\ ~isspace(line[pos + 1])
    THEN SkipWord(line, pos + 1)
    ELSE pos

RECURSIVE SkipSpace(_, _)
\* while pos < len(line) and line[pos].isspace(): pos += 1
SkipSpace(line, pos) ==
    IF pos < Len(line) /\ isspace(line[pos + 1])
    THEN SkipSpace(line, pos + 1)
    ELSE pos

RECURSIVE BackSpace(_, _)
\* while pos > 0 and line[pos-1].isspace(): pos -= 1
BackSpace(line, pos) ==
    IF pos > 0 /\ isspace(line[pos])
    THEN BackSpace(line, pos - 1)
    ELSE pos

RECURSIVE BackWord(_, _)
\* while pos > 0 and not line[pos-1].isspace(): pos -= 1
BackWord(line, pos) ==
    IF pos > 0 /\ ~isspace(line[pos])
    THEN BackWord(line, pos - 1)
    ELSE pos

find_word_boundary(line, pos, direction) ==
    IF direction = 1 THEN SkipSpace(line, SkipWord(line, pos))
    ELSE IF direction = -1 THEN BackWord(line, BackSpace(line, pos))
    ELSE pos

\* find_word_end stopping at the end of the word, the trailing spaces left.
find_word_end_no_space(line, pos) == SkipWord(line, pos)

\* The two loops of find_word_end are those of the forward scan.
find_word_end(line, pos) == SkipSpace(line, SkipWord(line, pos))

\* content[current_line]
CurLine(s) == s.content[s.current_line + 1]

next_word(s) ==
    IF s.content = << >> \/ CurLine(s) = << >> THEN s
    ELSE LET line == CurLine(s)
             original == s.current_row
             new_pos == find_word_boundary(line, original, 1)
         IN  clamp_cursor([s EXCEPT !.current_row =
                               IF new_pos >= Len(line) THEN original ELSE new_pos])

previous_word(s) ==
    IF s.content = << >> \/ CurLine(s) = << >> THEN s
    ELSE clamp_cursor([s EXCEPT !.current_row =
                           find_word_boundary(CurLine(s), s.current_row, -1)])

(***************************************************************************)
(* The handlers of the command table.  Each takes the state and the        *)
(* argument and yields the state the Python handler leaves behind.         *)
(***************************************************************************)
\* state['command_history'].append((cmd, arg))
Record(s, cmd, arg) == [s EXCEPT !.command_history = Append(@, <<cmd, arg>>)]

\* if not state['content']: state['content'].append("")
Seed(s) == IF s.content = << >> THEN [s EXCEPT !.content = <<(<< >>)>>] ELSE s

handle_cursor_toggle(s, cursor_type, arg) ==
    IF cursor_type = "row" THEN [s EXCEPT !.show_row_cursor = ~@]
    ELSE IF cursor_type = "line" THEN [s EXCEPT !.show_line_cursor = ~@]
    ELSE s

handle_h(s, arg) == [s EXCEPT !.current_row = Max(0, @ - 1)]

handle_l(s, arg) ==
    IF s.content # << >>
    THEN [s EXCEPT !.current_row = Min(Len(CurLine(s)), @ + 1)]
    ELSE s

\* handle_j moving down, the conventional direction of j.
handle_j_down(s, arg) ==
    IF s.current_line < Len(s.content) - 1
    THEN [s EXCEPT !.current_line = @ + 1]
    ELSE s

handle_j(s, arg) ==
    IF s.current_line > 0 THEN [s EXCEPT !.current_line = @ - 1] ELSE s

handle_k(s, arg) ==
    IF s.current_line < Len(s.content) - 1
    THEN [s EXCEPT !.current_line = @ + 1]
    ELSE s

handle_caret(s, arg) == [s EXCEPT !.current_row = 0]

handle_dollar(s, arg) ==
    [s EXCEPT !.current_row = IF s.content # << >> THEN Len(CurLine(s)) ELSE 0]

handle_word_navigation(s, direction, arg) ==
    IF direction = "next" THEN next_word(s)
    ELSE IF direction = "previous" THEN previous_word(s)
    ELSE s

\* handle_i advancing the column by the length of the text, as handle_a does.
handle_i_advance(s, arg) ==
    LET s1 == Seed(s)
        cl == s1.current_line
        cr == s1.current_row
        line == s1.content[cl + 1]
    IN  Record([s1 EXCEPT !.content[cl + 1] =
                    Slice(line, 0, cr) \o arg \o SliceFrom(line, cr),
                          !.current_row = @ + Len(arg)],
               <<"i">>, arg)

handle_i(s, arg) ==
    LET s1 == Seed(s)
        cl == s1.current_line
        cr == s1.current_row
        line == s1.content[cl + 1]
    IN  Record([s1 EXCEPT !.content[cl + 1] =
                    Slice(line, 0, cr) \o arg \o SliceFrom(line, cr)],
               <<"i">>, arg)

\* handle_a inserting before the character at the cursor, as handle_i does.
handle_a_before_cursor(s, arg) ==
    LET s1 == Seed(s)
        cl == s1.current_line
        cr == s1.current_row
        line == s1.content[cl + 1]
    IN  Record([s1 EXCEPT !.content[cl + 1] =
                    Slice(line, 0, cr) \o arg \o SliceFrom(line, cr),
                          !.current_row = @ + Len(arg)],
               <<"a">>, arg)

handle_a(s, arg) ==
    LET s1 == Seed(s)
        cl == s1.current_line
        cr == s1.current_row
        line == s1.content[cl + 1]
    IN  Record([s1 EXCEPT !.content[cl + 1] =
                    Slice(line, 0, cr + 1) \o arg \o SliceFrom(line, cr + 1),
                          !.current_row = @ + Len(arg)],
               <<"a">>, arg)

handle_x(s, arg) ==
    IF s.content # << >> /\ CurLine(s) # << >> /\ s.current_row < Len(CurLine(s))
    THEN LET cl == s.current_line
             cr == s.current_row
         IN  Record([s EXCEPT !.content[cl + 1] =
                         Slice(@, 0, cr) \o SliceFrom(@, cr + 1)],
                    <<"x">>, None)
    ELSE s

handle_dw(s, arg) ==
    IF s.content = << >> \/ CurLine(s) = << >> THEN s
    ELSE LET line == CurLine(s)
             cr == s.current_row
         IN  Record([s EXCEPT !.content[s.current_line + 1] =
                         Slice(line, 0, cr) \o SliceFrom(line, find_word_end(line, cr))],
                    <<"d", "w">>, None)

\* handle_yy copying the first line of the document instead of the current one.
handle_yy_first_line(s, arg) ==
    IF s.content # << >> THEN [s EXCEPT !.clipboard = s.content[1]] ELSE s

handle_yy(s, arg) ==
    IF s.content # << >> THEN [s EXCEPT !.clipboard = CurLine(s)] ELSE s

\* handle_dd keeping the removed line in the clipboard.
handle_dd_to_clipboard(s, arg) ==
    IF s.content # << >>
    THEN LET content == ListDel(s.content, s.current_line)
         IN  Record([s EXCEPT !.content = content,
                              !.clipboard = CurLine(s),
                              !.current_line =
                                  IF content # << >>
                                  THEN Max(0, Min(s.current_line, Len(content) - 1))
                                  ELSE 0],
                    <<"d", "d">>, None)
    ELSE s

\* handle_dd removing the first line of the document instead of the current one.
handle_dd_first_line(s, arg) ==
    IF s.content # << >>
    THEN LET content == ListDel(s.content, 0)
         IN  Record([s EXCEPT !.content = content,
                              !.current_line =
                                  IF content # << >>
                                  THEN Max(0, Min(s.current_line, Len(content) - 1))
                                  ELSE 0],
                    <<"d", "d">>, None)
    ELSE s

handle_dd(s, arg) ==
    IF s.content # << >>
    THEN LET content == ListDel(s.content, s.current_line)
         IN  Record([s EXCEPT !.content = content,
                              !.current_line =
                                  IF content # << >>
                                  THEN Max(0, Min(s.current_line, Len(content) - 1))
                                  ELSE 0],
                    <<"d", "d">>, None)
    ELSE s

handle_insert_line(s, above) ==
    IF above
    THEN Record([s EXCEPT !.content = ListInsert(@, s.current_line, << >>)],
                <<"O">>, None)
    ELSE Record([s EXCEPT !.content = ListInsert(@, s.current_line + 1, << >>),
                          !.current_line = @ + 1,
                          !.current_row = 0],
                <<"o">>, None)

\* handle_paste without the test for an absent clipboard: it pastes an empty line.
handle_paste_unguarded(s, above) ==
    LET clip == IF s.clipboard # None THEN s.clipboard ELSE << >>
    IN  IF above
        THEN Record([s EXCEPT !.content = ListInsert(@, s.current_line, clip)],
                    <<"P">>, None)
        ELSE Record([s EXCEPT !.content = ListInsert(@, s.current_line + 1, clip),
                              !.current_line = @ + 1],
                    <<"p">>, None)

handle_paste(s, above) ==
    IF s.clipboard # None
    THEN IF above
         THEN Record([s EXCEPT !.content = ListInsert(@, s.current_line, s.clipboard)],
                     <<"P">>, None)
         ELSE Record([s EXCEPT !.content = ListInsert(@, s.current_line + 1, s.clipboard),
                               !.current_line = @ + 1],
                     <<"p">>, None)
    ELSE s

\* handle_u restoring the oldest snapshot of the stack instead of the newest.
handle_u_oldest(s, arg) ==
    IF s.undo_stack = << >> THEN s
    ELSE LET saved == s.undo_stack[1]
             s1 == restore_state([s EXCEPT !.undo_stack = ListPop(@)], saved)
         IN  IF s1.command_history # << >>
             THEN [s1 EXCEPT !.command_history = ListPop(@)]
             ELSE s1

handle_u(s, arg) ==
    IF s.undo_stack = << >> THEN s
    ELSE LET saved == s.undo_stack[Len(s.undo_stack)]
             s1 == restore_state([s EXCEPT !.undo_stack = ListPop(@)], saved)
         IN  IF s1.command_history # << >>
             THEN [s1 EXCEPT !.command_history = ListPop(@)]
             ELSE s1

(***************************************************************************)
(* The dispatcher.  handle_r calls handle_command, which calls the handler *)
(* of the table, which may be handle_r.                                    *)
(***************************************************************************)
RECURSIVE handle_command(_, _, _)

\* handle_r replaying the oldest history entry instead of the newest.
handle_r_oldest(s, arg) ==
    IF s.command_history # << >>
    THEN LET last_cmd == s.command_history[1]
         IN  handle_command(s, last_cmd[1], last_cmd[2])
    ELSE s

\* handle_r dropping the snapshot its replay has pushed.
handle_r_no_snapshot(s, arg) ==
    IF s.command_history # << >>
    THEN LET last_cmd == s.command_history[Len(s.command_history)]
             replayed == handle_command(s, last_cmd[1], last_cmd[2])
         IN  [replayed EXCEPT !.undo_stack = s.undo_stack]
    ELSE s

handle_r(s, arg) ==
    IF s.command_history # << >>
    THEN LET last_cmd == s.command_history[Len(s.command_history)]
         IN  handle_command(s, last_cmd[1], last_cmd[2])
    ELSE s

\* The keys of command_map.
CommandVerbs ==
    {<<".">>, <<";">>, <<"h">>, <<"l">>, <<"j">>, <<"k">>, <<"^">>, <<"w">>,
     <<"b">>, <<"$">>, <<"i">>, <<"a">>, <<"x">>, <<"d", "w">>, <<"y", "y">>,
     <<"d", "d">>, <<"o">>, <<"O">>, <<"p">>, <<"P">>, <<"u">>, <<"r">>}

\* command_map[cmd](s, a)
command_map(cmd, s, a) ==
    CASE cmd = <<".">> -> handle_cursor_toggle(s, "row", a)
      [] cmd = <<";">> -> handle_cursor_toggle(s, "line", a)
      [] cmd = <<"h">> -> handle_h(s, a)
      [] cmd = <<"l">> -> handle_l(s, a)
      [] cmd = <<"j">> -> handle_j(s, a)
      [] cmd = <<"k">> -> handle_k(s, a)
      [] cmd = <<"^">> -> handle_caret(s, a)
      [] cmd = <<"w">> -> handle_word_navigation(s, "next", a)
      [] cmd = <<"b">> -> handle_word_navigation(s, "previous", a)
      [] cmd = <<"$">> -> handle_dollar(s, a)
      [] cmd = <<"i">> -> handle_i(s, a)
      [] cmd = <<"a">> -> handle_a(s, a)
      [] cmd = <<"x">> -> handle_x(s, a)
      [] cmd = <<"d", "w">> -> handle_dw(s, a)
      [] cmd = <<"y", "y">> -> handle_yy(s, a)
      [] cmd = <<"d", "d">> -> handle_dd(s, a)
      [] cmd = <<"o">> -> handle_insert_line(s, FALSE)
      [] cmd = <<"O">> -> handle_insert_line(s, TRUE)
      [] cmd = <<"p">> -> handle_paste(s, FALSE)
      [] cmd = <<"P">> -> handle_paste(s, TRUE)
      [] cmd = <<"u">> -> handle_u(s, a)
      [] cmd = <<"r">> -> handle_r(s, a)

\* The verbs handle_command neither snapshots nor records: ['u', 'r', '?', 's'].
Unrecorded == {<<"u">>, <<"r">>, <<"?">>, <<"s">>}

\* handle_command with 'r' missing from the list of the snapshot test.
handle_command_snapshot_r(s, cmd, arg) ==
    LET s1 == IF cmd \notin {<<"u">>, <<"?">>, <<"s">>} THEN save_state(s) ELSE s
        s2 == IF cmd \in CommandVerbs THEN command_map(cmd, s1, arg) ELSE s1
        s3 == clamp_cursor(s2)
    IN  IF cmd \notin Unrecorded
        THEN IF cmd \in CommandVerbs /\ cmd # <<"r">>
             THEN Record(s3, cmd, arg)
             ELSE s3
        ELSE IF cmd = <<"u">> /\ s3.command_history # << >>
             THEN [s3 EXCEPT !.command_history = ListPop(@)]
             ELSE s3

\* handle_command recording every verb of the table, u and r included.
handle_command_record_all(s, cmd, arg) ==
    LET s1 == IF cmd \notin Unrecorded THEN save_state(s) ELSE s
        s2 == IF cmd \in CommandVerbs THEN command_map(cmd, s1, arg) ELSE s1
        s3 == clamp_cursor(s2)
    IN  IF cmd \in CommandVerbs
        THEN Record(s3, cmd, arg)
        ELSE s3

\* handle_command without the clamp_cursor call after the handler.
handle_command_no_clamp(s, cmd, arg) ==
    LET s1 == IF cmd \notin Unrecorded THEN save_state(s) ELSE s
        s3 == IF cmd \in CommandVerbs THEN command_map(cmd, s1, arg) ELSE s1
    IN  IF cmd \notin Unrecorded
        THEN IF cmd \in CommandVerbs /\ cmd # <<"r">>
             THEN Record(s3, cmd, arg)
             ELSE s3
        ELSE IF cmd = <<"u">> /\ s3.command_history # << >>
             THEN [s3 EXCEPT !.command_history = ListPop(@)]
             ELSE s3

handle_command(s, cmd, arg) ==
    LET s1 == IF cmd \notin Unrecorded THEN save_state(s) ELSE s
        s2 == IF cmd \in CommandVerbs THEN command_map(cmd, s1, arg) ELSE s1
        s3 == clamp_cursor(s2)
    IN  IF cmd \notin Unrecorded
        THEN IF cmd \in CommandVerbs /\ cmd # <<"r">>
             THEN Record(s3, cmd, arg)
             ELSE s3
        ELSE IF cmd = <<"u">> /\ s3.command_history # << >>
             THEN [s3 EXCEPT !.command_history = ListPop(@)]
             ELSE s3

(***************************************************************************)
(* The read loop.                                                          *)
(***************************************************************************)
\* One pass of main's loop with the test for a rejected input left out.
main_dispatch_rejected(s, user_input) ==
    LET parsed == parse_command(user_input)
        cmd == parsed[1]
        arg == parsed[2]
    IN  IF cmd = <<"?">> THEN s
        ELSE handle_command(s, cmd, arg)

\* One pass of main's loop for an input other than 'q': the state it leaves.
\* display_help_info and display_content only print.
main(s, user_input) ==
    LET parsed == parse_command(user_input)
        cmd == parsed[1]
        arg == parsed[2]
    IN  IF cmd = None THEN s
        ELSE IF cmd = <<"?">> THEN s
        ELSE handle_command(s, cmd, arg)

(***************************************************************************)
(* The state machine: one step per line read by main.                      *)
(***************************************************************************)
VARIABLES
    state,      \* the dictionary main holds
    running,    \* TRUE until main leaves its loop
    last,       \* the input main read last, None before the first
    clean,      \* TRUE while every input read so far was a snapshotting command
    p_input,    \* the string handed to parse_command on its own
    p_result    \* what parse_command returned for it

vars == <<state, running, last, clean, p_input, p_result>>

\* The texts typed after i and a.
Texts == {<<"h", "i">>, <<" ">>}

\* Inputs the parser rejects.
RejectedInputs ==
    {<< >>, <<"h", "x">>}

\* The lines typed at the prompt.
Inputs ==
    SingleCharVerbs \cup FixedVerbs \cup HistoryVerbs \cup RejectedInputs
        \cup {<<"i">> \o t : t \in Texts} \cup {<<"a">> \o t : t \in Texts}

\* The states the model keeps: the undo stack and the document stay small.
WithinBounds(s, max_undo) ==
    /\ Len(s.undo_stack) <= max_undo
    /\ Len(s.content) <= MaxLines
    /\ \A n \in 1..Len(s.content) : Len(s.content[n]) <= MaxLineLen

\* The verb of an input, or None
Verb(input) == parse_command(input)[1]

\* The verbs for which handle_command pushes a snapshot.
Snapshotting(input) == Verb(input) # None /\ Verb(input) \notin Unrecorded

Init ==
    /\ state = initialize_state
    /\ running = TRUE
    /\ last = None
    /\ clean = TRUE
    /\ p_input = << >>
    /\ p_result = << >>

\* main reads user_input (not 'q') and runs one pass of its loop.
Step(user_input, max_undo) ==
    /\ user_input # <<"q">>
    /\ state' = main(state, user_input)
    /\ WithinBounds(state', max_undo)
    /\ last' = user_input
    /\ clean' = (clean /\ Snapshotting(user_input))
    /\ UNCHANGED <<running, p_input, p_result>>

\* The inputs of a set that parse to each verb, or to None.
ByVerb(inputs) ==
    [v \in {Verb(input) : input \in inputs} |-> {input \in inputs : Verb(input) = v}]

InputsByVerb == ByVerb(Inputs)

\* main reads an input whose verb is v.
Typed(v) == \E user_input \in InputsByVerb[v] : Step(user_input, MaxUndo)

\* main reads 'q' and returns.  Its local state is gone with it: the model
\* parks the variables in one terminal state.
Quit ==
    /\ running
    /\ running' = FALSE
    /\ state' = initialize_state
    /\ last' = <<"q">>
    /\ clean' = FALSE
    /\ UNCHANGED <<p_input, p_result>>

Reject == running /\ Typed(None)

Help == running /\ Typed(<<"?">>)

Show == running /\ Typed(<<"s">>)

ToggleRow == running /\ Typed(<<".">>)

ToggleLine == running /\ Typed(<<";">>)

Cmd_h == running /\ Typed(<<"h">>)

Cmd_l == running /\ Typed(<<"l">>)

Cmd_j == running /\ Typed(<<"j">>)

Cmd_k == running /\ Typed(<<"k">>)

Cmd_caret == running /\ Typed(<<"^">>)

Cmd_dollar == running /\ Typed(<<"$">>)

Cmd_w == running /\ Typed(<<"w">>)

Cmd_b == running /\ Typed(<<"b">>)

Cmd_i == running /\ Typed(<<"i">>)

Cmd_a == running /\ Typed(<<"a">>)

Cmd_x == running /\ Typed(<<"x">>)

Cmd_dw == running /\ Typed(<<"d", "w">>)

Cmd_yy == running /\ Typed(<<"y", "y">>)

Cmd_dd == running /\ Typed(<<"d", "d">>)

Cmd_o == running /\ Typed(<<"o">>)

Cmd_O == running /\ Typed(<<"O">>)

Cmd_p == running /\ Typed(<<"p">>)

Cmd_P == running /\ Typed(<<"P">>)

Cmd_u == running /\ Typed(<<"u">>)

Cmd_r == running /\ Typed(<<"r">>)

Next ==
    \/ Quit
    \/ Reject
    \/ Help
    \/ Show
    \/ ToggleRow
    \/ ToggleLine
    \/ Cmd_h
    \/ Cmd_l
    \/ Cmd_j
    \/ Cmd_k
    \/ Cmd_caret
    \/ Cmd_dollar
    \/ Cmd_w
    \/ Cmd_b
    \/ Cmd_i
    \/ Cmd_a
    \/ Cmd_x
    \/ Cmd_dw
    \/ Cmd_yy
    \/ Cmd_dd
    \/ Cmd_o
    \/ Cmd_O
    \/ Cmd_p
    \/ Cmd_P
    \/ Cmd_u
    \/ Cmd_r

Spec == Init /\ [][Next]_vars

(***************************************************************************)
(* The same loop with only the line commands typed (and no undo), which    *)
(* lets the document grow to several lines within a deeper undo stack.     *)
(***************************************************************************)
LineInputs ==
    {<<"i", "h", "i">>, <<"o">>, <<"O">>, <<"j">>, <<"k">>, <<"y", "y">>,
     <<"p">>, <<"P">>, <<"d", "d">>}

LineInputsByVerb == ByVerb(LineInputs)

TypedLine(v) == \E user_input \in LineInputsByVerb[v] : Step(user_input, MaxUndoLines)

Line_i == running /\ TypedLine(<<"i">>)

Line_o == running /\ TypedLine(<<"o">>)

Line_O == running /\ TypedLine(<<"O">>)

Line_j == running /\ TypedLine(<<"j">>)

Line_k == running /\ TypedLine(<<"k">>)

Line_yy == running /\ TypedLine(<<"y", "y">>)

Line_p == running /\ TypedLine(<<"p">>)

Line_P == running /\ TypedLine(<<"P">>)

Line_dd == running /\ TypedLine(<<"d", "d">>)

NextLines ==
    \/ Line_i
    \/ Line_o
    \/ Line_O
    \/ Line_j
    \/ Line_k
    \/ Line_yy
    \/ Line_p
    \/ Line_P
    \/ Line_dd

SpecLines == Init /\ [][NextLines]_vars

(***************************************************************************)
(* parse_command on its own, over every string of a bounded alphabet.      *)
(***************************************************************************)
\* Every character of a verb, a space and a character of no verb.
ParseChars ==
    {"?", ".", ";", "h", "j", "k", "l", "^", "$", "x", "s", "q", "w", "b",
     "d", "y", "p", "P", "o", "O", "i", "a", "u", "r", " ", "z"}

RECURSIVE StringsUpTo(_)
StringsUpTo(n) ==
    IF n = 0 THEN {<< >>}
    ELSE LET shorter == StringsUpTo(n - 1)
         IN  shorter \cup {Append(str, ch) : str \in shorter, ch \in ParseChars}

\* Longer inputs: a verb with trailing text, and texts after i and a.
LongInputs ==
    {<<"d", "d", "x">>, <<"y", "y", "x">>, <<"d", "w", " ">>, <<"i", "h", "i">>,
     <<"a", " ", "b", " ">>, <<"i", "d", "d", "x">>, <<"u", "u", "u">>}

ParseInputs == StringsUpTo(MaxParseLen) \cup LongInputs

InitParse ==
    /\ state = initialize_state
    /\ running = TRUE
    /\ last = None
    /\ clean = TRUE
    /\ p_input \in ParseInputs
    /\ p_result = << >>

\* cmd, arg = parse_command(user_input)
Parse ==
    /\ running
    /\ p_result = << >>
    /\ p_result' = parse_command(p_input)
    /\ UNCHANGED <<state, running, last, clean, p_input>>

NextParse == Parse

SpecParse == InitParse /\ [][NextParse]_vars

(***************************************************************************)
(* Properties.                                                             *)
(***************************************************************************)
\* What undo is to bring back: document, cursor, toggle flags and clipboard.
View(s) ==
    <<s.content, s.current_line, s.current_row, s.show_line_cursor,
      s.show_row_cursor, s.clipboard>>

\* Document, cursor line, cursor column and clipboard.
DocCursorClip(s) == <<s.content, s.current_line, s.current_row, s.clipboard>>

\* The state main(s, "u") and main(s, "r") leave.
Undone(s) == main(s, <<"u">>)

Repeated(s) == main(s, <<"r">>)

\* The length of the line the cursor is on, 0 in an empty document.
CurLineLen(s) == IF s.content = << >> THEN 0 ELSE Len(CurLine(s))

\* C1: after every command the cursor line lies in 0 .. max(0, lines - 1) and
\* the cursor column in 0 .. max(0, length of the current line - 1); the column
\* is 0 on an empty line and in an empty document.
C1_ClampInvariant ==
    /\ 0 <= state.current_line
    /\ state.current_line <= Max(0, Len(state.content) - 1)
    /\ 0 <= state.current_row
    /\ state.current_row <= Max(0, CurLineLen(state) - 1)
    /\ CurLineLen(state) = 0 => state.current_row = 0

\* $ set the column to the line length and the clamp brought it back.
C1_Witness ==
    /\ last = <<"$">>
    /\ CurLineLen(state) >= 2
    /\ state.current_row = CurLineLen(state) - 1

\* C2: a snapshotting command (any verb outside u, r, ?, s) followed by u leaves
\* document, cursor, toggle flags and clipboard as they were before the command.
C2_UndoIsLeftInverse ==
    [][(running' /\ Snapshotting(last')) => View(Undone(state')) = View(state)]_vars

\* u has brought back a document that a later command had changed.
C2_Witness ==
    /\ last = <<"u">>
    /\ state.content # << >>
    /\ state.undo_stack # << >>

\* C3: the command history and the undo stack have the same length after any
\* sequence of commands.
C3_HistoryLockstep == Len(state.command_history) = Len(state.undo_stack)

\* C4: after a snapshotting command c with argument a, r applies c's handler
\* with a once more to the current state; from the initial state, i "hi" then r
\* leaves the document ["hihi"] with the cursor at line 0, column 0.
C4_RepeatReplaysLast ==
    [][(running' /\ Snapshotting(last')) =>
          LET cmd == parse_command(last')[1]
              arg == parse_command(last')[2]
          IN  /\ DocCursorClip(Repeated(state')) =
                     DocCursorClip(clamp_cursor(command_map(cmd, state', arg)))
              /\ (state = initialize_state /\ last' = <<"i", "h", "i">>) =>
                     /\ Repeated(state').content = <<(<<"h", "i", "h", "i">>)>>
                     /\ Repeated(state').current_line = 0
                     /\ Repeated(state').current_row = 0]_vars

\* i "hi" and then r, from the empty document.
C4_Witness ==
    /\ last = <<"r">>
    /\ state.content = <<(<<"h", "i", "h", "i">>)>>
    /\ state.current_line = 0
    /\ state.current_row = 0
    /\ Len(state.undo_stack) = 2

\* C5: after snapshotting commands c1 .. cn (n >= 2) from the initial state, u
\* leaves (verb, argument) of c(n-1) as the newest history entry.
C5_UndoKeepsEarlierEntry ==
    [][(running' /\ clean' /\ last # None) =>
          LET history == Undone(state').command_history
          IN  /\ history # << >>
              /\ history[Len(history)] = parse_command(last)]_vars

\* The verbs the parser takes without an argument.
NoArgumentVerbs ==
    {<<"?">>, <<".">>, <<";">>, <<"h">>, <<"j">>, <<"k">>, <<"l">>, <<"^">>,
     <<"$">>, <<"x">>, <<"s">>, <<"q">>, <<"w">>, <<"b">>, <<"u">>, <<"r">>,
     <<"d", "w">>, <<"y", "y">>, <<"d", "d">>, <<"p">>, <<"P">>, <<"o">>, <<"O">>}

\* C6: parse_command returns (verb, None) for a no-argument verb, ('i' or 'a',
\* rest) for a longer string starting with i or a, and (None, None) otherwise.
C6_ParserClassifies ==
    p_result # << >> =>
        IF p_input \in NoArgumentVerbs
        THEN p_result = <<p_input, None>>
        ELSE IF Len(p_input) > 1 /\ p_input[1] \in {"i", "a"}
        THEN p_result = <<(<<p_input[1]>>), Tail(p_input)>>
        ELSE p_result = <<None, None>>

\* A verb with trailing text was parsed.
C6_Witness ==
    /\ p_input = <<"d", "d", "x">>
    /\ p_result = <<None, None>>

\* C7: an input the parser rejects leaves every field of the state unchanged.
C7_RejectedInputNoEffect ==
    [][(running' /\ Verb(last') = None) => state' = state]_vars

\* The empty string was typed while the document and both stacks held something.
C7_Witness ==
    /\ last = << >>
    /\ state.content # << >>
    /\ state.undo_stack # << >>
    /\ state.command_history # << >>

\* C8: u on an empty undo stack and r on an empty command history leave every
\* field of the state unchanged.
C8_EmptyHistoryNoOps ==
    [][running' =>
          /\ (last' = <<"u">> /\ state.undo_stack = << >>) => state' = state
          /\ (last' = <<"r">> /\ state.command_history = << >>) => state' = state]_vars

\* r was typed with nothing to repeat (r with something to repeat records it).
C8_Witness ==
    /\ last = <<"r">>
    /\ state.command_history = << >>
    /\ state.undo_stack = << >>

\* C9: x, dw, yy, dd on an empty document, x and dw on an empty line, and p and P
\* with nothing yanked leave document, cursor and clipboard unchanged.
C9_StructuralNoOps ==
    [][running' =>
          LET cmd == Verb(last')
              empty_document == state.content = << >>
              empty_line == state.content # << >> /\ CurLine(state) = << >>
          IN  (\/ empty_document /\ cmd \in {<<"x">>, <<"d", "w">>, <<"y", "y">>, <<"d", "d">>}
               \/ empty_line /\ cmd \in {<<"x">>, <<"d", "w">>}
               \/ state.clipboard = None /\ cmd \in {<<"p">>, <<"P">>})
              => DocCursorClip(state') = DocCursorClip(state)]_vars

\* p was typed in a non-empty document with nothing yanked (p leaves the
\* clipboard as it finds it).
C9_Witness ==
    /\ last = <<"p">>
    /\ state.clipboard = None
    /\ state.content # << >>

\* new is old with the line copy inserted at index at (0-based), the other
\* lines in their order.
CopyInserted(old, new, at, copy) ==
    /\ Len(new) = Len(old) + 1
    /\ new[at + 1] = copy
    /\ \A n \in 1..at : new[n] = old[n]
    /\ \A n \in (at + 1)..Len(old) : new[n + 1] = old[n]

\* C10: in a non-empty document with the cursor on line n, yy then p inserts a
\* copy of line n at index n + 1 and moves the cursor line to n + 1; yy then P
\* inserts it at index n and leaves the cursor line at n.
C10_YankPasteRoundTrip ==
    [][(running' /\ last' = <<"y", "y">> /\ state.content # << >>) =>
          LET n == state.current_line
              below == main(state', <<"p">>)
              above == main(state', <<"P">>)
          IN  /\ CopyInserted(state.content, below.content, n + 1, CurLine(state))
              /\ below.current_line = n + 1
              /\ CopyInserted(state.content, above.content, n, CurLine(state))
              /\ above.current_line = n]_vars

\* yy then p on the empty first line of ["", "hi"].
C10_Witness ==
    /\ last = <<"p">>
    /\ state.content = <<(<< >>), (<< >>), (<<"h", "i">>)>>
    /\ state.current_line = 1
    /\ state.clipboard = << >>

\* new is old without the line at index at (0-based), the other lines in their
\* order.
LineRemoved(old, new, at) ==
    /\ Len(new) = Len(old) - 1
    /\ \A n \in 1..at : new[n] = old[n]
    /\ \A n \in (at + 2)..Len(old) : new[n - 1] = old[n]

\* C11: dd in a non-empty document removes exactly the line at the cursor, keeps
\* the other lines in order and leaves the cursor line at min(old index, new
\* line count - 1), or 0 when the document becomes empty; dd on a single-line
\* document yields the empty document with cursor line 0, and a further dd
\* leaves document and cursor unchanged.
C11_LineDelete ==
    state.content # << >> =>
        LET n == state.current_line
            deleted == main(state, <<"d", "d">>)
            again == main(deleted, <<"d", "d">>)
        IN  /\ LineRemoved(state.content, deleted.content, n)
            /\ deleted.current_line =
                   IF deleted.content = << >> THEN 0
                   ELSE Min(n, Len(deleted.content) - 1)
            /\ Len(state.content) = 1 =>
                   /\ deleted.content = << >>
                   /\ deleted.current_line = 0
                   /\ again.content = deleted.content
                   /\ again.current_line = deleted.current_line
                   /\ again.current_row = deleted.current_row

\* dd emptied the document (two history entries) and a second dd did nothing
\* (a third entry).
C11_Witness ==
    /\ last = <<"d", "d">>
    /\ state.content = << >>
    /\ state.current_line = 0
    /\ Len(state.command_history) >= 3
    /\ \A n \in (Len(state.command_history) - 2)..Len(state.command_history) :
           state.command_history[n][1] = <<"d", "d">>

\* The first index from from on (0-based) that holds a whitespace character
\* (space = TRUE) or a non-whitespace one (space = FALSE), the length of the line
\* when there is none.
FirstFrom(line, from, space) ==
    LET stops(p) == p = Len(line) \/ (line[p + 1] = " ") = space
    IN  CHOOSE p \in from..Len(line) :
            stops(p) /\ \A q \in from..(p - 1) : ~stops(q)

\* C12: dw on a non-empty line with the cursor at column c replaces the line by
\* line[:c] + line[e:], e reached from c by skipping the non-whitespace run and
\* then the whitespace run; "foo bar" at column 0 becomes "bar"; the line count
\* stays (an emptied line remains as "") and the other lines are unchanged.
C12_WordDelete ==
    /\ (state.content # << >> /\ CurLine(state) # << >>) =>
           LET line == CurLine(state)
               c == state.current_row
               e == FirstFrom(line, FirstFrom(line, c, TRUE), FALSE)
               deleted == main(state, <<"d", "w">>)
           IN  /\ Len(deleted.content) = Len(state.content)
               /\ deleted.content =
                      [state.content EXCEPT ![state.current_line + 1] =
                          SubSeq(line, 1, c) \o SubSeq(line, e + 1, Len(line))]
    /\ LET typed == main(initialize_state, <<"i", "f", "o", "o", " ", "b", "a", "r">>)
       IN  main(typed, <<"d", "w">>).content = <<(<<"b", "a", "r">>)>>

\* dw removed the only word of a line and the line stayed as "".
C12_Witness ==
    /\ last = <<"d", "w">>
    /\ state.content = <<(<< >>)>>
    /\ state.command_history # << >>
    /\ state.command_history[Len(state.command_history)][1] = <<"d", "w">>

\* The handlers that evaluate content[current_line]: l, $, w, b, x, dw, yy and dd
\* do so when the document is non-empty, i and a always, after seeding an empty
\* document with one empty line.
IndexingVerbs ==
    {<<"l">>, <<"$">>, <<"w">>, <<"b">>, <<"x">>, <<"d", "w">>, <<"y", "y">>,
     <<"d", "d">>}

SeedingVerbs == {<<"i">>, <<"a">>}

\* Every handler that s lets evaluate content[current_line] finds a line there.
IndexInRange(s) ==
    \A cmd \in IndexingVerbs \cup SeedingVerbs :
        LET content == IF cmd \in SeedingVerbs /\ s.content = << >>
                       THEN <<(<< >>)>> ELSE s.content
            indexes == cmd \in SeedingVerbs \/ content # << >>
        IN  indexes => /\ content # << >>
                       /\ 0 <= s.current_line
                       /\ s.current_line < Len(content)

\* C13: no handler reads content[current_line] out of range: in every state a
\* command is dispatched from, and in the state each accepted or rejected input
\* leads to, a handler that indexes the document finds it non-empty with
\* 0 <= current_line < len(content).
C13_IndexInRange ==
    /\ IndexInRange(state)
    /\ \A user_input \in Inputs : IndexInRange(main(state, user_input))

\* P pasted the yanked line into a document that dd had emptied.
C13_Witness ==
    /\ last = <<"P">>
    /\ Len(state.content) = 1
    /\ state.undo_stack # << >>
    /\ state.undo_stack[Len(state.undo_stack)].content = << >>
    /\ state.undo_stack[Len(state.undo_stack)].clipboard # None

RECURSIVE UndoneTimes(_, _)
\* The state k inputs u leave.
UndoneTimes(s, k) == IF k = 0 THEN s ELSE UndoneTimes(Undone(s), k - 1)

\* C14: after n snapshotting commands from the initial state, k inputs u
\* (1 <= k <= n) bring document, cursor, toggle flags and clipboard back to what
\* they were before command n - k + 1 and leave n - k snapshots; k = n gives the
\* initial state with an empty undo stack.  The undo stack is the log of the
\* states before each command: entry j is the state before command j.
C14_MultiLevelUndo ==
    [][(running' /\ clean') =>
          LET n == Len(state'.undo_stack)
          IN  /\ n = Len(state.undo_stack) + 1
              /\ SubSeq(state'.undo_stack, 1, n - 1) = state.undo_stack
              /\ View(state'.undo_stack[n]) = View(state)
              /\ \A k \in 1..n :
                     /\ View(UndoneTimes(state', k)) = View(state'.undo_stack[n - k + 1])
                     /\ Len(UndoneTimes(state', k).undo_stack) = n - k
              /\ View(UndoneTimes(state', n)) = View(initialize_state)
              /\ UndoneTimes(state', n).undo_stack = << >>]_vars

\* u has undone a command that changed the document, and one more u leads to
\* the initial state.
C14_Witness ==
    /\ last = <<"u">>
    /\ state.content # << >>
    /\ Len(state.undo_stack) = 1
    /\ View(Undone(state)) = View(initialize_state)
    /\ Undone(state).undo_stack = << >>

\* C15: r with a non-empty command history pushes exactly one snapshot, the
\* state just before the replay, so that u right after it brings document,
\* cursor, toggle flags and clipboard back to what they were just before r.
C15_RepeatSnapshotsOnce ==
    [][(running' /\ last' = <<"r">> /\ state.command_history # << >>) =>
          LET n == Len(state'.undo_stack)
          IN  /\ n = Len(state.undo_stack) + 1
              /\ SubSeq(state'.undo_stack, 1, n - 1) = state.undo_stack
              /\ View(state'.undo_stack[n]) = View(state)
              /\ View(Undone(state')) = View(state)
              /\ Undone(state').undo_stack = state.undo_stack]_vars

\* r replayed a command that changed the document once more; the snapshot on
\* top of the stack holds the document the first run had left.
C15_Witness ==
    /\ last = <<"r">>
    /\ Len(state.undo_stack) = 2
    /\ state.undo_stack[2].content # << >>
    /\ state.content # state.undo_stack[2].content

\* C16: every entry of the command history has a verb of the handler table
\* other than u, r, ? and s, so that the entry handle_r replays is never r
\* itself and the replay goes one level deep.
C16_HistoryReplayable ==
    \A n \in 1..Len(state.command_history) :
        /\ state.command_history[n][1] \in CommandVerbs
        /\ state.command_history[n][1] \notin Unrecorded

\* r was typed after a recorded command and left the replayed verb, not r, as
\* the newest entry.
C16_Witness ==
    /\ last = <<"r">>
    /\ Len(state.command_history) >= 3
    /\ state.command_history[Len(state.command_history)][1] \in
           CommandVerbs \ {<<"u">>, <<"r">>}

\* The document of s, an empty one seeded with one empty line.
Seeded(s) == IF s.content = << >> THEN <<(<< >>)>> ELSE s.content

\* new is the document of s with text put into the cursor line after its first
\* at characters, the other lines unchanged.
TextPutIn(s, new, text, at) ==
    LET line == Seeded(s)[s.current_line + 1]
        k == Min(at, Len(line))
    IN  new = [Seeded(s) EXCEPT ![s.current_line + 1] =
                   SubSeq(line, 1, k) \o text \o SubSeq(line, k + 1, Len(line))]

\* C17 as stated: a with text t at line n, column c makes the line
\* line[:c+1] + t + line[c+1:] (an empty document seeded first, which then
\* becomes [t]), leaves the other lines, and the column after the command is
\* c + len(t).
C17_AppendColumnAsStated ==
    [][(running' /\ Verb(last') = <<"a">>) =>
          LET t == parse_command(last')[2]
              c == state.current_row
          IN  /\ TextPutIn(state, state'.content, t, c + 1)
              /\ state.content = << >> => state'.content = <<t>>
              /\ state'.current_line = state.current_line
              /\ state'.current_row = c + Len(t)]_vars

\* C17: a with text t at line n, column c makes the line
\* line[:c+1] + t + line[c+1:] (an empty document seeded first, which then
\* becomes [t]) and leaves the other lines; the column after the command is
\* c + len(t) when the line held a character, and len(t) - 1, the last
\* character of t, when the line was empty or the document was.
C17_AppendColumnClamped ==
    [][(running' /\ Verb(last') = <<"a">>) =>
          LET t == parse_command(last')[2]
              c == state.current_row
          IN  /\ TextPutIn(state, state'.content, t, c + 1)
              /\ state.content = << >> => state'.content = <<t>>
              /\ state'.current_line = state.current_line
              /\ state'.current_row =
                     IF CurLineLen(state) = 0 THEN Len(t) - 1 ELSE c + Len(t)]_vars

\* a "hi" on the line "hi" with the cursor on its h: the text went in after the
\* h and the column moved on by two.
C17_Witness ==
    /\ last = <<"a", "h", "i">>
    /\ state.content = <<(<<"h", "h", "i", "i">>)>>
    /\ state.current_row = 2

\* C18: i with text t at line n, column c makes the line line[:c] + t + line[c:]
\* and leaves the other lines, the line count (an empty document is seeded with
\* one line), the clipboard and the cursor (n, c); on the empty document the
\* result is [t] with the cursor at (0, 0).
C18_InsertKeepsCursor ==
    [][(running' /\ Verb(last') = <<"i">>) =>
          LET t == parse_command(last')[2]
          IN  /\ TextPutIn(state, state'.content, t, state.current_row)
              /\ Len(state'.content) = Len(Seeded(state))
              /\ state'.clipboard = state.clipboard
              /\ state'.current_line = state.current_line
              /\ state'.current_row = state.current_row
              /\ state.content = << >> =>
                     /\ state'.content = <<t>>
                     /\ state'.current_line = 0
                     /\ state'.current_row = 0]_vars

\* i " " on the line "hi" with the cursor on its i: the space went in before
\* the i and the column stayed.
C18_Witness ==
    /\ last = <<"i", " ">>
    /\ state.content = <<(<<"h", " ", "i">>)>>
    /\ state.current_row = 1

VerticalMoves(s) ==
    LET up == main(s, <<"j">>)
        down == main(s, <<"k">>)
        kept(moved) ==
            /\ moved.content = s.content
            /\ moved.clipboard = s.clipboard
            /\ moved.current_row = Min(s.current_row, Max(0, CurLineLen(moved) - 1))
    IN  /\ up.current_line =
               IF s.current_line = 0 THEN 0 ELSE s.current_line - 1
        /\ down.current_line =
               IF s.content = << >> \/ s.current_line = Len(s.content) - 1
               THEN s.current_line ELSE s.current_line + 1
        /\ kept(up)
        /\ kept(down)

\* C20: j decreases the cursor line by exactly 1 unless it is 0, k increases it
\* by exactly 1 unless it is the last line or the document is empty; neither
\* changes document or clipboard, and the column is clamped to the new line.
\* Stated of every state and of the state a with a text leaves, where the
\* column is past the end of a shorter neighbour line.
C20_VerticalMovement ==
    /\ VerticalMoves(state)
    /\ \A text \in Texts : VerticalMoves(main(state, <<"a">> \o text))

\* j was typed on the second line of a document and took the cursor to the
\* first.
C20_Witness ==
    /\ last = <<"j">>
    /\ Len(state.content) >= 2
    /\ state.current_line = 0
    /\ state.undo_stack # << >>
    /\ state.undo_stack[Len(state.undo_stack)].current_line = 1
    /\ state.undo_stack[Len(state.undo_stack)].content = state.content

====
